---- MODULE Spec2Model ----
(***************************************************************************)
(* Model of metaplex/utils/execution_engine.py: the coroutine execute()    *)
(* (scoped client, signer normalisation, bounded submit/retry loop) and    *)
(* the coroutine confirmation() (1-second polling with a timeout).         *)
(* A behaviour of Spec is one invocation of execute(); a step is the code  *)
(* between two suspension points (send_transaction, asyncio.sleep,         *)
(* get_signature_statuses).  SpecApi adds the MetaplexAPI operation that   *)
(* awaits execute(); SpecConc runs two invocations as interleaved tasks,   *)
(* SpecPair runs them side by side on responses that differ only after     *)
(* the first signature.                                                    *)
(***************************************************************************)
EXTENDS Integers, Sequences, FiniteSets, TLC

\* ---------------------------------------------------------------- bounds
MaxRetriesBound == 3
MaxTimeoutBound == 3
MaxTarget == 2
MaxConfirmations == 2
MaxSigners == 2
NumSeeds == 2

\* ------------------------------------------------------ values and inputs
\* a local name that holds no value
Unbound == [type |-> "unbound", idx |-> 0]
NoValue == [type |-> "none", idx |-> 0]
\* the exception Python raises when an unbound local name is read
UnboundLocalError == [type |-> "UnboundLocalError", idx |-> 0]

\* the value returned by the send_transaction call of loop index a
Res(a) == [type |-> "result", idx |-> a]
\* the exception raised by the send_transaction call of loop index a
SubmitErr(a) == [type |-> "submit_error", idx |-> a]
\* the exception raised by the get_signature_statuses call of loop index a
QueryErr(a) == [type |-> "query_error", idx |-> a]

Seeds == 1..NumSeeds

RECURSIVE SeqsUpTo(_)
SeqsUpTo(n) ==
    IF n = 0 THEN {<<>>}
    ELSE LET shorter == SeqsUpTo(n - 1)
         IN  shorter \cup {Append(s, x) : s \in {t \in shorter : Len(t) = n - 1}, x \in Seeds}

SignerInputs == SeqsUpTo(MaxSigners)

ConfirmationStatuses == {"processed", "confirmed", "finalized"}

\* resp["result"]["value"][0]: None, or a status object
Absent == [present |-> FALSE, confirmations |-> 0, confirmationStatus |-> "none"]
Statuses ==
    [present : {TRUE}, confirmations : 0..MaxConfirmations,
     confirmationStatus : ConfirmationStatuses]
NoStatus == [present |-> FALSE, confirmations |-> 0, confirmationStatus |-> "never"]

skip_confirmation_default_False == FALSE

\* execute(..., skip_confirmation=True, ...): the default of the keyword
skip_confirmation_default == TRUE

VARIABLES
    pc,              \* position of the coroutine
    client,          \* the AsyncClient of the async-with block
    closes,          \* how many times the client was closed
    max_retries, skipArg, max_timeout, target, finalized,   \* arguments
    signersIn,       \* the signers argument
    signers,         \* the local signers after line 19
    attempt,         \* loop index of `for attempt in range(max_retries)`
    e,               \* the local name e of `except Exception as e`
    result,          \* the local name result
    elapsed,         \* the local name elapsed of confirmation()
    outcome,         \* how execute() ended
    \* ---- history of the invocation (observations, not program state)
    nSubmit,         \* send_transaction calls made
    firstOk,         \* ordinal of the first send_transaction that returned, 0 if none
    lastSubmitErr,   \* exception of the latest failed send_transaction
    lastEvent,       \* the latest adapter call or sleep
    nSleep, nQuery,  \* asyncio.sleep / get_signature_statuses calls made
    queryRaised,     \* some get_signature_statuses call raised
    submitAfterPoll, \* a send_transaction call was made after a sleep or query
    sentSigners,     \* the signers passed to the latest send_transaction call
    runSleeps, runQueries,  \* sleeps / queries of the current confirmation() run
    runUnsatisfied,  \* every status seen in this run failed the success condition
    lastStatus,      \* what the latest query of this run returned for value[0]
    pollerExit,      \* "none", "running", "returned", "raised"
    \* ---- the MetaplexAPI operation that awaits execute()
    op,              \* the operation, "execute" for a direct call
    apiResponse,     \* "none", "200", "400", or "escaped" (exception raised)
    \* ---- two invocations of execute() as concurrent tasks
    tasks,           \* the locals of each task
    clients,         \* the AsyncClient objects constructed so far
    callsOnClosed,   \* an adapter call went through a client that was not open
    actor,           \* the task that took the latest step
    lastOthers       \* what the latest query of each task returned for value[1:]

args == <<max_retries, skipArg, max_timeout, target, finalized, signersIn>>
locals == <<signers, attempt, e, result, elapsed>>
submitHist == <<nSubmit, firstOk, lastSubmitErr, submitAfterPoll, sentSigners>>
pollHist == <<nSleep, nQuery, queryRaised>>
runHist == <<runSleeps, runQueries, runUnsatisfied, lastStatus, pollerExit>>
single == <<pc, client, closes, locals, outcome, submitHist, lastEvent,
            pollHist, runHist>>
api == <<op, apiResponse>>
conc == <<tasks, clients, callsOnClosed, actor, lastOthers>>
outside == <<api, conc>>
vars == <<args, single, outside>>

\* the value of the parameter skip_confirmation inside execute()
skip_confirmation ==
    IF skipArg = "omitted" THEN skip_confirmation_default ELSE skipArg = "True"

\* ------------------------------------------------- signer normalisation
Range(s) == {s[i] : i \in 1..Len(s)}

\* the orders in which a Python set of seeds can be iterated
Orderings(S) ==
    {s \in [1..Cardinality(S) -> S] : Range(s) = S}

Normalize_NoDedup(in) == {in}

\* list(map(Keypair, set(map(lambda s: s.seed, signers))))
Normalize(in) == Orderings(Range(in))

\* --------------------------------------------------------------- Init
\* the operations of MetaplexAPI that await execute()
Operations ==
    {"deploy", "topup", "mint", "update_token_metadata", "send", "burn"}

\* the two invocations that run as concurrent tasks
TaskIds == {1, 2}

\* the signatures of tx: signatures = [x.signature for x in tx.signatures]
TxSignatures == <<"sigA", "sigB">>

\* resp["result"]["value"]: one entry per queried signature
Responses == [1..Len(TxSignatures) -> {Absent} \cup Statuses]

\* the locals of a task that has not started
TaskInit ==
    [pc |-> "start", client |-> 0, attempt |-> 0, elapsed |-> 0,
     outcome |-> "running", nSubmit |-> 0, nSleep |-> 0, nQuery |-> 0,
     queried |-> <<>>]

\* no AsyncClient has been constructed
ClientsInit == [c \in TaskIds |-> [state |-> "unopened", users |-> {}]]

\* a direct call of execute(): any arguments, skip_confirmation may be left
\* out; the signers are one signer given twice
ArgsInit ==
    /\ max_retries \in -1..MaxRetriesBound
    /\ skipArg \in {"omitted", "True", "False"}
    /\ max_timeout \in -1..MaxTimeoutBound
    /\ target \in -1..MaxTarget
    /\ finalized \in BOOLEAN
    /\ signersIn = <<1, 1>>

\* no task has started
ConcInit ==
    /\ tasks = [t \in TaskIds |-> TaskInit]
    /\ clients = ClientsInit
    /\ callsOnClosed = FALSE
    /\ actor = 0
    /\ lastOthers = [t \in TaskIds |-> <<>>]

\* the invocation has not started
SingleInit ==
    /\ pc = "start"
    /\ client = "unopened"
    /\ closes = 0
    /\ signers = <<>>
    /\ attempt = 0
    /\ e = Unbound
    /\ result = Unbound
    /\ elapsed = 0
    /\ outcome = [kind |-> "running", val |-> NoValue]
    /\ nSubmit = 0
    /\ firstOk = 0
    /\ lastSubmitErr = NoValue
    /\ lastEvent = "none"
    /\ nSleep = 0
    /\ nQuery = 0
    /\ queryRaised = FALSE
    /\ submitAfterPoll = FALSE
    /\ sentSigners = <<>>
    /\ runSleeps = 0
    /\ runQueries = 0
    /\ runUnsatisfied = TRUE
    /\ lastStatus = NoStatus
    /\ pollerExit = "none"

Init ==
    /\ ArgsInit
    /\ op = "execute"
    /\ apiResponse = "none"
    /\ SingleInit
    /\ ConcInit

\* ------------------------------------------------------------ execute()
CloseClient_Leak == UNCHANGED <<client, closes>>

\* leaving the async-with block, by return or by exception
CloseClient ==
    /\ client' = "closed"
    /\ closes' = closes + 1

\* lines 18-19: open the client, normalise the signers, enter the loop
Enter ==
    /\ pc = "start"
    /\ client' = "open"
    /\ signers' \in Normalize(signersIn)
    /\ attempt' = 0
    /\ pc' = "loop"
    /\ UNCHANGED <<closes, args, outside, e, result, elapsed, outcome, submitHist,
                   lastEvent, pollHist, runHist>>

LoopHasNext_OffByOne == attempt <= max_retries

LoopHasNext_AtLeastOnce == attempt = 0 \/ attempt < max_retries

\* `for attempt in range(max_retries)`: there is another iteration
LoopHasNext == attempt < max_retries

ConfirmationWanted_Always == TRUE

\* line 27: `if not skip_confirmation`
ConfirmationWanted == ~skip_confirmation

\* the bookkeeping of one send_transaction call
SubmitCalled ==
    /\ nSubmit' = nSubmit + 1
    /\ submitAfterPoll' = (submitAfterPoll \/ nSleep > 0 \/ nQuery > 0)
    /\ sentSigners' = signers

\* lines 20-31: send_transaction returns; with skip_confirmation the result
\* is returned, otherwise confirmation() starts (elapsed = 0)
SubmitOk ==
    /\ pc = "loop"
    /\ LoopHasNext
    /\ SubmitCalled
    /\ firstOk' = IF firstOk = 0 THEN nSubmit + 1 ELSE firstOk
    /\ lastEvent' = "submit_ok"
    /\ result' = Res(attempt)
    /\ IF ConfirmationWanted
       THEN /\ pc' = "poll"
            /\ elapsed' = 0
            /\ runSleeps' = 0
            /\ runQueries' = 0
            /\ runUnsatisfied' = TRUE
            /\ lastStatus' = NoStatus
            /\ pollerExit' = "running"
            /\ UNCHANGED <<client, closes, outcome>>
       ELSE /\ pc' = "done"
            /\ outcome' = [kind |-> "return", val |-> Res(attempt)]
            /\ CloseClient
            /\ UNCHANGED <<elapsed, runHist>>
    /\ UNCHANGED <<args, outside, signers, attempt, e, lastSubmitErr, pollHist>>

\* the name e after the handler of `except Exception as e` has run with
\* exception x: Python unbinds the name when the except clause is left
AfterExcept(x) == Unbound

Handler_NoAdvance(x) ==
    /\ e' = Unbound
    /\ attempt' = attempt
    /\ pc' = "loop"

\* lines 32-34: the handler; `continue` takes the next loop index
Handler(x) ==
    /\ e' = AfterExcept(x)
    /\ attempt' = attempt + 1
    /\ pc' = "loop"

\* lines 20-24, 32-34: send_transaction raises
SubmitFail ==
    /\ pc = "loop"
    /\ LoopHasNext
    /\ SubmitCalled
    /\ lastSubmitErr' = SubmitErr(attempt)
    /\ lastEvent' = "submit_err"
    /\ Handler(SubmitErr(attempt))
    /\ UNCHANGED <<client, closes, args, outside, signers, result, elapsed, outcome,
                   firstOk, pollHist, runHist>>

\* what `raise e` raises
RaisedBy(x) == IF x = Unbound THEN UnboundLocalError ELSE x

\* line 35: the loop is exhausted (or never ran): raise e
RaiseE ==
    /\ pc = "loop"
    /\ ~LoopHasNext
    /\ pc' = "done"
    /\ outcome' = [kind |-> "raise", val |-> RaisedBy(e)]
    /\ CloseClient
    /\ UNCHANGED <<args, outside, locals, submitHist, lastEvent, pollHist, runHist>>

\* --------------------------------------------------------- confirmation()
PollerContinues_OffByOne == elapsed <= max_timeout

\* line 40: the loop condition
PollerContinues == elapsed < max_timeout

PollerReturns_IgnoresFlag(confirmations, is_finalized) ==
    confirmations >= target \/ is_finalized

PollerReturns_CountOnly(confirmations, is_finalized) ==
    IF ~finalized
    THEN confirmations >= target
    ELSE is_finalized

PollerReturns_Strict(confirmations, is_finalized) ==
    IF ~finalized
    THEN confirmations > target \/ is_finalized
    ELSE is_finalized

PollerReturns_FlagInverted(confirmations, is_finalized) ==
    IF finalized
    THEN confirmations >= target \/ is_finalized
    ELSE is_finalized

\* lines 52-58: the tests that make confirmation() return
PollerReturns(confirmations, is_finalized) ==
    IF ~finalized
    THEN confirmations >= target \/ is_finalized
    ELSE is_finalized

\* the statuses of value[0] on which lines 45-58 end the polling, as a
\* predicate of the status object
SuccessCondition(st) ==
    /\ st.present
    /\ \/ st.confirmationStatus = "finalized"
       \/ ~finalized /\ st.confirmations >= target

\* lines 40-43: one more round: sleep 1 second
Sleep ==
    /\ pc = "poll"
    /\ PollerContinues
    /\ elapsed' = elapsed + 1
    /\ pc' = "query"
    /\ nSleep' = nSleep + 1
    /\ runSleeps' = runSleeps + 1
    /\ lastEvent' = "sleep"
    /\ UNCHANGED <<client, closes, args, outside, signers, attempt, e, result, outcome,
                   submitHist, nQuery, queryRaised, runQueries, runUnsatisfied,
                   lastStatus, pollerExit>>

\* confirmation() returns, execute() returns result (line 31)
ReturnResult ==
    /\ pc' = "done"
    /\ outcome' = [kind |-> "return", val |-> result]
    /\ pollerExit' = "returned"
    /\ CloseClient

\* line 40 false: the timeout is reached, confirmation() falls off its end
Timeout ==
    /\ pc = "poll"
    /\ ~PollerContinues
    /\ ReturnResult
    /\ UNCHANGED <<args, outside, locals, submitHist, lastEvent, pollHist, runSleeps,
                   runQueries, runUnsatisfied, lastStatus>>

\* the bookkeeping of one get_signature_statuses call
QueryCalled ==
    /\ nQuery' = nQuery + 1
    /\ runQueries' = runQueries + 1
    /\ lastEvent' = "query"

QueryAbsent_Returns ==
    /\ pc = "query"
    /\ QueryCalled
    /\ lastStatus' = Absent
    /\ ReturnResult
    /\ UNCHANGED <<args, outside, locals, submitHist, nSleep, queryRaised, runSleeps,
                   runUnsatisfied>>

\* lines 44-45, 50-51: value[0] is None: continue
QueryAbsent ==
    /\ pc = "query"
    /\ QueryCalled
    /\ lastStatus' = Absent
    /\ pc' = "poll"
    /\ UNCHANGED <<client, closes, args, outside, locals, outcome, submitHist, nSleep,
                   queryRaised, runSleeps, runUnsatisfied, pollerExit>>

\* lines 44-58: value[0] is a status object
QueryStatus ==
    /\ pc = "query"
    /\ QueryCalled
    /\ \E st \in Statuses :
        LET confirmations == st.confirmations
            is_finalized == st.confirmationStatus = "finalized"
        IN  /\ lastStatus' = st
            /\ runUnsatisfied' = (runUnsatisfied /\ ~SuccessCondition(st))
            /\ IF PollerReturns(confirmations, is_finalized)
               THEN ReturnResult
               ELSE /\ pc' = "poll"
                    /\ UNCHANGED <<client, closes, outcome, pollerExit>>
    /\ UNCHANGED <<args, outside, locals, submitHist, nSleep, queryRaised, runSleeps>>

\* line 44, or the reading of its response in lines 45-53, raises inside the
\* try of execute(): the handler of lines 32-34 catches the exception and
\* the retry loop goes on
QueryRaise ==
    /\ pc = "query"
    /\ QueryCalled
    /\ queryRaised' = TRUE
    /\ lastStatus' = NoStatus
    /\ pollerExit' = "raised"
    /\ Handler(QueryErr(attempt))
    /\ UNCHANGED <<client, closes, args, outside, signers, result, elapsed, outcome,
                   submitHist, nSleep, runSleeps, runUnsatisfied>>

Next ==
    \/ Enter
    \/ SubmitOk
    \/ SubmitFail
    \/ RaiseE
    \/ Sleep
    \/ Timeout
    \/ QueryAbsent
    \/ QueryStatus
    \/ QueryRaise

Spec == Init /\ [][Next]_vars

\* a call of execute() with any sequence of signers
InitSigners ==
    /\ max_retries \in {1, 2}
    /\ skipArg \in {"True", "False"}
    /\ max_timeout \in {0, 1}
    /\ target = 1
    /\ finalized = TRUE
    /\ signersIn \in SignerInputs
    /\ op = "execute"
    /\ apiResponse = "none"
    /\ SingleInit
    /\ ConcInit

SpecSigners == InitSigners /\ [][Next]_vars

\* every awaited call (send_transaction, sleep, get_signature_statuses)
\* returns or raises, so the coroutine always takes its next step
SpecLive == Spec /\ WF_vars(Next)

\* ------------------------------------------------------------ MetaplexAPI
\* the operations whose body is a try with a bare except returning status 400
HasTry(o) == o \in {"deploy", "topup", "send", "burn"}

\* what the operation does with an exception raised in its body
OnException(o) == IF HasTry(o) THEN "400" ELSE "escaped"

\* an operation is called: skip_confirmation is always passed to execute()
InitApi ==
    /\ ArgsInit
    /\ skipArg # "omitted"
    /\ op \in Operations
    /\ apiResponse = "none"
    /\ SingleInit
    /\ ConcInit

\* building the transaction (or decrypting the key) raises before execute()
ApiBuildFails ==
    /\ op \in Operations
    /\ pc = "start"
    /\ pc' = "api_done"
    /\ apiResponse' = OnException(op)
    /\ UNCHANGED <<args, op, conc, client, closes, locals, outcome, submitHist,
                   lastEvent, pollHist, runHist>>

\* execute() has ended: status 200 with its result, or the exception it raised
ApiReturn ==
    /\ op \in Operations
    /\ pc = "done"
    /\ pc' = "api_done"
    /\ apiResponse' = IF outcome.kind = "return" THEN "200" ELSE OnException(op)
    /\ UNCHANGED <<args, op, conc, client, closes, locals, outcome, submitHist,
                   lastEvent, pollHist, runHist>>

NextApi ==
    \/ Next
    \/ ApiBuildFails
    \/ ApiReturn

SpecApi == InitApi /\ [][NextApi]_vars

\* ------------------------------------------- two invocations as tasks
\* Each task runs execute() on its own locals (the record tasks[t]); both
\* were called with the same arguments.  T-operators give the locals of a
\* task after one step of the code.

\* both tasks are called with skip_confirmation passed and no signers
InitConc ==
    /\ max_retries \in {0, 1, 2}
    /\ skipArg \in {"True", "False"}
    /\ max_timeout \in {0, 1, 2}
    /\ target \in {1, 2}
    /\ finalized \in BOOLEAN
    /\ signersIn = <<>>
    /\ op = "execute"
    /\ apiResponse = "none"
    /\ SingleInit
    /\ ConcInit

NewClientId_Shared(pool) == 1

\* AsyncClient(api_endpoint) constructs a new client object at every call
NewClientId(pool) ==
    Cardinality({c \in DOMAIN pool : pool[c].state # "unopened"}) + 1

\* the pool after client c was opened, used by task t, closed
PoolOpen(pool, c) == [pool EXCEPT ![c].state = "open"]
PoolCall(pool, c, t) == [pool EXCEPT ![c].users = @ \cup {t}]
PoolClose(pool, c) == [pool EXCEPT ![c].state = "closed"]

\* line 44: the signatures passed to get_signature_statuses
QueriedSignatures_FirstOnly(sigs) == <<sigs[1]>>

QueriedSignatures(sigs) == sigs

Gate_AllSignatures(resp) ==
    IF \A i \in DOMAIN resp :
          /\ resp[i].present
          /\ PollerReturns(resp[i].confirmations,
                           resp[i].confirmationStatus = "finalized")
    THEN "return"
    ELSE "continue"

\* lines 45-58: what a response does to the polling loop
Gate(resp) ==
    LET value0 == resp[1]
    IN  IF ~value0.present
        THEN "continue"
        ELSE IF PollerReturns(value0.confirmations,
                              value0.confirmationStatus = "finalized")
             THEN "return"
             ELSE "continue"

\* line 18: the client is opened
TEnter(s, c) == [s EXCEPT !.pc = "loop", !.client = c]

\* line 20: there is another loop index
TLoopHasNext(s) == s.attempt < max_retries

\* lines 22-31: send_transaction returned
TSubmitOk(s) ==
    IF ConfirmationWanted
    THEN [s EXCEPT !.nSubmit = @ + 1, !.pc = "poll", !.elapsed = 0]
    ELSE [s EXCEPT !.nSubmit = @ + 1, !.pc = "done", !.outcome = "return"]

\* lines 32-34: the handler
THandler(s) == [s EXCEPT !.pc = "loop", !.attempt = @ + 1]

\* lines 22-24, 32-34: send_transaction raised
TSubmitFail(s) == THandler([s EXCEPT !.nSubmit = @ + 1])

\* line 35
TRaiseE(s) == [s EXCEPT !.pc = "done", !.outcome = "raise"]

\* line 40
TPollerContinues(s) == s.elapsed < max_timeout

\* lines 41-43
TSleep(s) == [s EXCEPT !.pc = "query", !.elapsed = @ + 1, !.nSleep = @ + 1]

\* line 40 false, line 31
TTimeout(s) == [s EXCEPT !.pc = "done", !.outcome = "return"]

\* lines 44-58: get_signature_statuses returned resp
TQuery(s, resp) ==
    LET q == [s EXCEPT !.nQuery = @ + 1,
                       !.queried = QueriedSignatures(TxSignatures)]
    IN  IF Gate(resp) = "return"
        THEN [q EXCEPT !.pc = "done", !.outcome = "return"]
        ELSE [q EXCEPT !.pc = "poll"]

\* line 44 raised, lines 32-34
TQueryRaise(s) ==
    THandler([s EXCEPT !.nQuery = @ + 1,
                       !.queried = QueriedSignatures(TxSignatures)])

\* task t moves to locals s2; call: the step is an adapter call
TaskStep(t, s2, call) ==
    LET c == tasks[t].client
        used == IF call THEN PoolCall(clients, c, t) ELSE clients
    IN  /\ tasks' = [tasks EXCEPT ![t] = s2]
        /\ clients' = IF s2.pc = "done" THEN PoolClose(used, c) ELSE used
        /\ callsOnClosed' = (callsOnClosed \/ (call /\ clients[c].state # "open"))
        /\ actor' = t
        /\ UNCHANGED <<args, api, single, lastOthers>>

CEnter(t) ==
    /\ tasks[t].pc = "start"
    /\ LET c == NewClientId(clients)
       IN  /\ tasks' = [tasks EXCEPT ![t] = TEnter(tasks[t], c)]
           /\ clients' = PoolOpen(clients, c)
    /\ actor' = t
    /\ UNCHANGED <<args, api, single, callsOnClosed, lastOthers>>

CSubmitOk(t) ==
    /\ tasks[t].pc = "loop"
    /\ TLoopHasNext(tasks[t])
    /\ TaskStep(t, TSubmitOk(tasks[t]), TRUE)

CSubmitFail(t) ==
    /\ tasks[t].pc = "loop"
    /\ TLoopHasNext(tasks[t])
    /\ TaskStep(t, TSubmitFail(tasks[t]), TRUE)

CRaiseE(t) ==
    /\ tasks[t].pc = "loop"
    /\ ~TLoopHasNext(tasks[t])
    /\ TaskStep(t, TRaiseE(tasks[t]), FALSE)

CSleep(t) ==
    /\ tasks[t].pc = "poll"
    /\ TPollerContinues(tasks[t])
    /\ TaskStep(t, TSleep(tasks[t]), FALSE)

CTimeout(t) ==
    /\ tasks[t].pc = "poll"
    /\ ~TPollerContinues(tasks[t])
    /\ TaskStep(t, TTimeout(tasks[t]), FALSE)

CQuery(t) ==
    /\ tasks[t].pc = "query"
    /\ \E resp \in Responses : TaskStep(t, TQuery(tasks[t], resp), TRUE)

CQueryRaise(t) ==
    /\ tasks[t].pc = "query"
    /\ TaskStep(t, TQueryRaise(tasks[t]), TRUE)

\* the tasks interleave at their suspension points
NextConc ==
    \E t \in TaskIds :
        \/ CEnter(t)
        \/ CSubmitOk(t)
        \/ CSubmitFail(t)
        \/ CRaiseE(t)
        \/ CSleep(t)
        \/ CTimeout(t)
        \/ CQuery(t)
        \/ CQueryRaise(t)

SpecConc == InitConc /\ [][NextConc]_vars

\* ---------------------------------------------- two runs side by side
\* The two tasks take every step together and get the same answers from the
\* ledger, except that the statuses of the signatures after the first may
\* differ between them.

\* both tasks move, task 1 to s1 and task 2 to s2
PairStep(s1, s2, call) ==
    LET c1 == tasks[1].client
        c2 == tasks[2].client
        used == IF call THEN PoolCall(PoolCall(clients, c1, 1), c2, 2) ELSE clients
        closed1 == IF s1.pc = "done" THEN PoolClose(used, c1) ELSE used
    IN  /\ tasks' = [t \in TaskIds |-> IF t = 1 THEN s1 ELSE s2]
        /\ clients' = IF s2.pc = "done" THEN PoolClose(closed1, c2) ELSE closed1
        /\ callsOnClosed' =
              (callsOnClosed
                \/ (call /\ (clients[c1].state # "open" \/ clients[c2].state # "open")))
        /\ actor' = 0
        /\ UNCHANGED <<args, api, single>>

BothAt(p) == \A t \in TaskIds : tasks[t].pc = p

PEnter ==
    /\ BothAt("start")
    /\ LET c1 == NewClientId(clients)
           pool1 == PoolOpen(clients, c1)
           c2 == NewClientId(pool1)
       IN  /\ tasks' = [t \in TaskIds |->
                          TEnter(tasks[t], IF t = 1 THEN c1 ELSE c2)]
           /\ clients' = PoolOpen(pool1, c2)
    /\ actor' = 0
    /\ UNCHANGED <<args, api, single, callsOnClosed, lastOthers>>

PSubmitOk ==
    /\ BothAt("loop")
    /\ \A t \in TaskIds : TLoopHasNext(tasks[t])
    /\ PairStep(TSubmitOk(tasks[1]), TSubmitOk(tasks[2]), TRUE)
    /\ UNCHANGED lastOthers

PSubmitFail ==
    /\ BothAt("loop")
    /\ \A t \in TaskIds : TLoopHasNext(tasks[t])
    /\ PairStep(TSubmitFail(tasks[1]), TSubmitFail(tasks[2]), TRUE)
    /\ UNCHANGED lastOthers

PRaiseE ==
    /\ BothAt("loop")
    /\ \A t \in TaskIds : ~TLoopHasNext(tasks[t])
    /\ PairStep(TRaiseE(tasks[1]), TRaiseE(tasks[2]), FALSE)
    /\ UNCHANGED lastOthers

PSleep ==
    /\ BothAt("poll")
    /\ \A t \in TaskIds : TPollerContinues(tasks[t])
    /\ PairStep(TSleep(tasks[1]), TSleep(tasks[2]), FALSE)
    /\ UNCHANGED lastOthers

PTimeout ==
    /\ BothAt("poll")
    /\ \A t \in TaskIds : ~TPollerContinues(tasks[t])
    /\ PairStep(TTimeout(tasks[1]), TTimeout(tasks[2]), FALSE)
    /\ UNCHANGED lastOthers

\* the two responses agree on the first signature and on nothing else
PQuery ==
    /\ BothAt("query")
    /\ \E r1, r2 \in Responses :
        /\ r1[1] = r2[1]
        /\ PairStep(TQuery(tasks[1], r1), TQuery(tasks[2], r2), TRUE)
        /\ lastOthers' = [t \in TaskIds |-> IF t = 1 THEN Tail(r1) ELSE Tail(r2)]

PQueryRaise ==
    /\ BothAt("query")
    /\ PairStep(TQueryRaise(tasks[1]), TQueryRaise(tasks[2]), TRUE)
    /\ UNCHANGED lastOthers

NextPair ==
    \/ PEnter
    \/ PSubmitOk
    \/ PSubmitFail
    \/ PRaiseE
    \/ PSleep
    \/ PTimeout
    \/ PQuery
    \/ PQueryRaise

SpecPair == InitConc /\ [][NextPair]_vars

\* ------------------------------------------------------------ properties
Max0(n) == IF n < 0 THEN 0 ELSE n
Returned(v) == pc = "done" /\ outcome = [kind |-> "return", val |-> v]

\* C1: with skip_confirmation false, if send_transaction first returns on
\* attempt k, exactly k send_transaction calls are made and execute returns
\* the result of attempt k: no send_transaction call follows one that
\* returned, whatever the status queries do.
C1_NoSubmitAfterSuccess ==
    (~skip_confirmation /\ firstOk > 0) =>
        /\ nSubmit = firstOk
        /\ pc = "done" => Returned(Res(firstOk - 1))

\* C2: for max_retries >= 1, if every send_transaction call raises, execute
\* makes exactly max_retries calls and raises the exception of the last one.
C2_RaisesLastError ==
    (pc = "done" /\ max_retries >= 1 /\ firstOk = 0) =>
        /\ nSubmit = max_retries
        /\ outcome = [kind |-> "raise", val |-> lastSubmitErr]

\* C3: an invocation in which a status query raised ends by raising, never by
\* returning a submission result.
C3_QueryErrorSurfaces ==
    (pc = "done" /\ queryRaised) => outcome.kind = "raise"

\* C4: every status query and polling sleep is preceded by a send_transaction
\* that returned, and no send_transaction is called once polling has begun.
C4_SubmitPrecedesPolling ==
    /\ (nSleep > 0 \/ nQuery > 0) => firstOk > 0
    /\ ~submitAfterPoll

C6_SkipNeverPolls ==
    skip_confirmation =>
        /\ nSleep = 0
        /\ nQuery = 0
        /\ pollerExit = "none"
        /\ firstOk > 0 => (nSubmit = firstOk /\ Returned(Res(firstOk - 1)))

C6_Witness ==
    /\ skipArg = "True"
    /\ firstOk = 2
    /\ Returned(Res(1))

\* C7 as stated: execute called without skip_confirmation polls (at least
\* one status query when max_timeout >= 1) before it returns a result.
C7_DefaultPolls ==
    (skipArg = "omitted" /\ pc = "done" /\ outcome.kind = "return"
        /\ max_timeout >= 1) => nQuery >= 1

\* C7 amended: skip_confirmation defaults to true in execute: called
\* without the argument, execute never sleeps or queries a status and
\* returns the result of the first send_transaction that returned; execute
\* polls before returning only when skip_confirmation=False is passed.
C7_DefaultSkips ==
    /\ skipArg = "omitted" =>
          /\ nSleep = 0
          /\ nQuery = 0
          /\ firstOk > 0 => Returned(Res(firstOk - 1))
    /\ (skipArg = "False" /\ pc = "done" /\ outcome.kind = "return"
          /\ max_timeout >= 1) => nQuery >= 1

C7_Witness ==
    /\ skipArg = "omitted"
    /\ max_timeout >= 1
    /\ firstOk = 1
    /\ Returned(Res(0))

\* C8: in one run of confirmation() with max_timeout >= 0 the number of
\* 1-second sleeps is at most max_timeout, and no sleep starts once that
\* many have been made.
C8_SleepBounded ==
    /\ [](max_timeout >= 0 => runSleeps <= max_timeout)
    /\ [][runSleeps' = runSleeps + 1 => runSleeps < max_timeout]_vars

C8_Witness ==
    /\ pollerExit = "returned"
    /\ max_timeout = 2
    /\ runSleeps = 2
    /\ runUnsatisfied

\* C9: a run of confirmation() in which no status met the success condition
\* returns only after exactly max_timeout sleeps and max_timeout queries
\* (none when max_timeout <= 0), it returns without raising, and execute
\* then returns the result of the send_transaction that preceded the run.
C9_TimeoutReturnsResult ==
    (pollerExit = "returned" /\ runUnsatisfied) =>
        /\ runSleeps = Max0(max_timeout)
        /\ runQueries = Max0(max_timeout)
        /\ Returned(Res(attempt))
        /\ lastEvent \in {"query", "submit_ok"}

C9_Witness ==
    /\ pollerExit = "returned"
    /\ runUnsatisfied
    /\ max_timeout = 3
    /\ runQueries = 3
    /\ finalized
    /\ lastStatus.present
    /\ lastStatus.confirmations >= target

\* C10: for either value of finalized and any target, the query that first
\* reports the first signature as finalized ends the run: confirmation()
\* returns right after that n-th query, n <= max_timeout, with exactly n
\* sleeps and n queries made, and nothing happens afterwards.
C10_FinalizedEndsPolling ==
    (lastStatus.present /\ lastStatus.confirmationStatus = "finalized") =>
        /\ pollerExit = "returned"
        /\ runSleeps = runQueries
        /\ runQueries >= 1
        /\ runQueries <= max_timeout
        /\ Returned(Res(attempt))
        /\ lastEvent = "query"

C10_Witness ==
    /\ lastStatus.present
    /\ lastStatus.confirmationStatus = "finalized"
    /\ lastStatus.confirmations < target
    /\ ~finalized
    /\ runQueries = 2
    /\ pollerExit = "returned"

\* C11: with finalized false, the query that first reports a confirmation
\* count >= target for the first signature, its status not being finalized,
\* ends the run: confirmation() returns right after that m-th query,
\* m <= max_timeout, with exactly m sleeps and m queries made.
C11_TargetEndsPolling ==
    (~finalized /\ lastStatus.present
        /\ lastStatus.confirmations >= target
        /\ lastStatus.confirmationStatus # "finalized") =>
        /\ pollerExit = "returned"
        /\ runSleeps = runQueries
        /\ runQueries >= 1
        /\ runQueries <= max_timeout
        /\ Returned(Res(attempt))
        /\ lastEvent = "query"

C11_Witness ==
    /\ ~finalized
    /\ target = 2
    /\ lastStatus.present
    /\ lastStatus.confirmations = 2
    /\ lastStatus.confirmationStatus = "confirmed"
    /\ runQueries = 3
    /\ pollerExit = "returned"

\* C12: the client opened by execute is closed on every exit path (normal
\* return, error after the retries, error with max_retries <= 0, error
\* raised during confirmation), and it is closed exactly once.
C12_ClientReleased ==
    /\ pc = "done" => (client = "closed" /\ closes = 1)
    /\ pc # "done" => closes = 0
    /\ pc \in {"loop", "poll", "query"} => client = "open"

C12_Witness ==
    /\ pc = "done"
    /\ outcome.kind = "raise"
    /\ queryRaised
    /\ closes = 1

\* C13: with max_retries <= 0 execute calls neither send_transaction nor
\* get_signature_statuses, never sleeps, and ends at once by raising.
C13_NoAttemptsRaises ==
    max_retries <= 0 =>
        /\ nSubmit = 0
        /\ nQuery = 0
        /\ nSleep = 0
        /\ pc \in {"start", "loop", "done"}
        /\ pc = "done" => outcome.kind = "raise"

C13_Witness ==
    /\ max_retries = 0
    /\ pc = "done"
    /\ outcome.kind = "raise"

\* C15: the signers passed to every send_transaction call are as many as
\* the distinct seeds of the signers argument, one for each distinct seed,
\* and no two of them have the same seed.
C15_SignersDistinct ==
    nSubmit > 0 =>
        LET distinct == {signersIn[i] : i \in DOMAIN signersIn}
        IN  /\ Len(sentSigners) = Cardinality(distinct)
            /\ \A x \in distinct : \E i \in DOMAIN sentSigners : sentSigners[i] = x
            /\ \A i, j \in DOMAIN sentSigners :
                  sentSigners[i] = sentSigners[j] => i = j

C15_Witness ==
    /\ nSubmit = 2
    /\ Len(signersIn) = 2
    /\ signersIn[1] = signersIn[2]
    /\ Len(sentSigners) = 1

\* C17: a run of confirmation() that returns after fewer than max_timeout
\* sleeps returns on a status that is present and either finalized or, with
\* finalized false, has a count >= target; with finalized true a status
\* that is not finalized never ends the polling, whatever its count.
C17_EarlyReturnOnlyOnSuccess ==
    /\ (pollerExit = "returned" /\ runSleeps < max_timeout) =>
          /\ lastEvent = "query"
          /\ lastStatus.present
          /\ \/ lastStatus.confirmationStatus = "finalized"
             \/ ~finalized /\ lastStatus.confirmations >= target
    /\ (finalized /\ lastStatus.present
          /\ lastStatus.confirmationStatus # "finalized") =>
          \/ pollerExit = "running" /\ pc \in {"poll", "query"}
          \/ pollerExit = "returned" /\ runSleeps = max_timeout

C17_Witness ==
    /\ finalized
    /\ max_timeout = 3
    /\ runQueries = 2
    /\ lastEvent = "query"
    /\ lastStatus.present
    /\ lastStatus.confirmations >= target
    /\ lastStatus.confirmationStatus = "confirmed"
    /\ pc = "poll"

\* C19: a query that returns no status for the first signature raises
\* nothing and ends neither the run nor the invocation; the round has used
\* its 1-second sleep, and while elapsed < max_timeout the next step is
\* another sleep.
C19_AbsentKeepsWaiting ==
    /\ []((lastEvent = "query" /\ lastStatus = Absent) =>
            /\ elapsed = runSleeps
            /\ runSleeps = runQueries
            /\ \/ pc = "poll" /\ pollerExit = "running" /\ outcome.kind = "running"
               \/ pollerExit = "returned" /\ elapsed >= max_timeout)
    /\ [][(lastEvent = "query" /\ lastStatus = Absent /\ elapsed < max_timeout) =>
            (lastEvent' = "sleep" /\ runSleeps' = runSleeps + 1)]_vars

C19_Witness ==
    /\ lastEvent = "query"
    /\ lastStatus = Absent
    /\ runQueries = 2
    /\ elapsed < max_timeout
    /\ pc = "poll"

\* C20: every invocation of execute ends (returns or raises) when each
\* awaited call returns or raises, after at most max_retries
\* send_transaction calls and at most max_retries * max_timeout status
\* queries, whatever the ledger answers.
C20_Terminates ==
    /\ <>(pc = "done")
    /\ [](/\ nSubmit <= Max0(max_retries)
          /\ nQuery <= Max0(max_retries) * Max0(max_timeout)
          /\ nSleep <= Max0(max_retries) * Max0(max_timeout))

C20_Witness ==
    /\ pc = "done"
    /\ max_retries = 3
    /\ max_timeout = 3
    /\ nSubmit = 3
    /\ nQuery = 9
    /\ outcome.kind = "raise"

\* C14: every API operation that awaits execute answers status 400 when
\* execute raised, instead of letting the exception escape, and answers
\* status 200 only when execute returned a result.
C14_ErrorsMapped ==
    /\ (pc = "api_done" /\ outcome.kind = "raise") => apiResponse = "400"
    /\ apiResponse = "200" => outcome.kind = "return"

\* C16: of two invocations interleaved at their suspension points, each
\* opens a client of its own, makes every adapter call through that client
\* while it is open, no client serves both, and the attempt and elapsed
\* counters of an invocation change only in its own steps.
C16_TasksIndependent ==
    /\ [](/\ \A t \in TaskIds : tasks[t].pc # "start" => tasks[t].client \in TaskIds
          /\ \A t, u \in TaskIds :
                (t # u /\ tasks[t].pc # "start" /\ tasks[u].pc # "start") =>
                    tasks[t].client # tasks[u].client
          /\ \A c \in DOMAIN clients :
                \A t \in clients[c].users : tasks[t].client = c
          /\ \A c \in DOMAIN clients : Cardinality(clients[c].users) <= 1
          /\ ~callsOnClosed
          /\ \A t \in TaskIds :
                tasks[t].pc \in {"loop", "poll", "query"} =>
                    clients[tasks[t].client].state = "open")
    /\ [][\A t \in TaskIds :
            t # actor' =>
                /\ tasks'[t].attempt = tasks[t].attempt
                /\ tasks'[t].elapsed = tasks[t].elapsed]_vars

C16_Witness ==
    /\ tasks[1].pc = "done"
    /\ tasks[2].pc = "query"
    /\ tasks[2].attempt = 1
    /\ tasks[1].client = 2
    /\ clients[2].state = "closed"
    /\ clients[1].state = "open"
    /\ clients[1].users = {2}
    /\ clients[2].users = {1}

\* C18: two runs with the same arguments whose responses agree on the first
\* signature at every query and differ freely on the other signatures make
\* the same numbers of sleeps and queries and end the same way at the same
\* step; every query passes the full list of signatures.
C18_OnlyFirstSignatureGates ==
    /\ tasks[1].pc = tasks[2].pc
    /\ tasks[1].outcome = tasks[2].outcome
    /\ tasks[1].attempt = tasks[2].attempt
    /\ tasks[1].elapsed = tasks[2].elapsed
    /\ tasks[1].nSubmit = tasks[2].nSubmit
    /\ tasks[1].nSleep = tasks[2].nSleep
    /\ tasks[1].nQuery = tasks[2].nQuery
    /\ \A t \in TaskIds : tasks[t].nQuery > 0 => tasks[t].queried = TxSignatures

C18_Witness ==
    /\ BothAt("done")
    /\ tasks[1].outcome = "return"
    /\ tasks[1].nQuery = 2
    /\ tasks[1].nSleep = 2
    /\ tasks[1].attempt = 1
    /\ lastOthers[1] = <<Absent>>
    /\ lastOthers[2] # <<Absent>>
    /\ lastOthers[2][1].confirmationStatus = "finalized"

====
